---- MODULE Spec2Model ----
(***************************************************************************)
(* DefiVaultPro scan pipeline: defi_scanner.py (source connectors, fetch,  *)
(* persistence, main loop) over db.py (the two catalog tables).            *)
(*                                                                         *)
(* Numbers are integers.  The risk score has halves in the source, so it   *)
(* is carried doubled (risk_score2 = 2 * risk_score).  A provider JSON     *)
(* number field is a record [t, v]: t = "num" a JSON number v, "numstr" a  *)
(* string float() parses to v, "str" a string given by its characters v,   *)
(* "null" a JSON null, "missing" an absent key.  A provider string field   *)
(* is a string, NullStr for a JSON null and AbsentStr for an absent key.   *)
(* Presentation-only fields of the entries (apy_str, tvl_str, gas fee,     *)
(* links) are left out; they feed no store column.                         *)
(***************************************************************************)
EXTENDS Integers, Sequences, FiniteSets, TLC

VARIABLES
    pc,                 \* position of main_loop
    cycle,              \* number of the running cycle
    req,                \* req[r]: the async_request call r of this cycle
    yfetch,             \* fetch_yields:     "running" | "done" | "raised"
    mfetch,             \* fetch_meme_coins: "running" | "done" | "raised"
    yields,             \* results["yields"]
    memes,              \* results["memes"]
    saveIdx,            \* save_results_to_db: index of the next entry
    opportunities,      \* table opportunities (set of rows)
    meme_opportunities, \* table meme_opportunities (set of rows)
    now,                \* datetime.utcnow() as a counter
    snapshot,           \* content of defi_scan_results.json
    slept,              \* seconds of the last asyncio.sleep of main_loop
    storeFaults,        \* TRUE once a store call failed in this cycle
    lastUpsert,         \* what the last yield upsert did to the table
    failedReq,          \* the requests of this cycle whose attempts all failed
    recordsLeft,        \* provider records the run may still serve
    faultsLeft,         \* failures (network, store, file) the run may still see
    saveLog,            \* save_results_to_db: how each entry of the batch ended
    fn,                 \* the call of a function applied on its own
    procs               \* the scanner processes app.py has launched

vars == <<pc, cycle, req, yfetch, mfetch, yields, memes, saveIdx, opportunities,
          meme_opportunities, now, snapshot, slept, storeFaults, lastUpsert,
          failedReq, recordsLeft, faultsLeft, saveLog, fn,
          procs>>

----------------------------------------------------------------------------
(* Bounds of the model *)

MaxCycles == 2      \* cycles of main_loop explored
NumQueries == 2     \* keywords of the meme fan-out (the source lists 7)
MaxPools == 2       \* pools in one yield payload
MaxPairs == 1       \* pairs in one keyword payload
MaxRecords == 3     \* provider records served in one run
MaxFaults == 3      \* failed attempts, store calls and file writes in one run

(* Program constants *)

MIN_APY == 5
MIN_TVL == 100000
RESCAN_INTERVAL == 3600
retries == 3
DEFAULT_LIMIT == 50
LOW_TVL == 1000000
HIGH_APY == 20
MIN_LIQUIDITY == 10000
HIGH_CHANGE == 20

FOCUS_PROTOCOLS == {"aave", "compound", "uniswap", "curve"}
MEME_CHAINS == {"ethereum", "bsc", "solana"}

NullStr == "<null>"
AbsentStr == "<absent>"

Num(n) == [t |-> "num", v |-> n]
NumStr(n) == [t |-> "numstr", v |-> n]
Null == [t |-> "null", v |-> 0]
Missing == [t |-> "missing", v |-> 0]

(* dict.get(key, default) on a number field and on a string field *)
GetNum(x, default) == IF x.t = "missing" THEN default ELSE x
GetStr(s, default) == IF s = AbsentStr THEN default ELSE s

(* str.lower() on the strings of the model *)
Lower(s) ==
    CASE s = "Ethereum" -> "ethereum"
      [] s = "Solana" -> "solana"
      [] s = "BSC" -> "bsc"
      [] s = "Polygon" -> "polygon"
      [] s = "Aave" -> "aave"
      [] s = "Yearn" -> "yearn"
      [] OTHER -> s

(* CHAIN_RISK_SCORES.get(chain.lower(), 1.0), doubled *)
ChainRisk2(chain) ==
    CASE Lower(chain) = "ethereum" -> 1
      [] Lower(chain) = "bsc" -> 2
      [] Lower(chain) = "solana" -> 3
      [] OTHER -> 2

(* risk_score with the tvl bound taken inclusive *)
risk_score2_TvlInclusive(apy, tvl, project, chain) ==
    2 + (IF apy > HIGH_APY THEN 2 ELSE 0)
      + (IF tvl <= LOW_TVL THEN 2 ELSE 0)
      + (IF Lower(project) \notin FOCUS_PROTOCOLS THEN 1 ELSE 0)
      + ChainRisk2(chain)

(* risk_score, doubled *)
risk_score2(apy, tvl, project, chain) ==
    2 + (IF apy > HIGH_APY THEN 2 ELSE 0)
      + (IF tvl < LOW_TVL THEN 2 ELSE 0)
      + (IF Lower(project) \notin FOCUS_PROTOCOLS THEN 1 ELSE 0)
      + ChainRisk2(chain)

----------------------------------------------------------------------------
(* fetch_yields: one raw pool of the provider payload *)

IsNumber(x) == x.t = "num"

(* The filter of fetch_yields with Python's short-circuit `and`:           *)
(* "raise" where a comparison or .lower() raises TypeError/AttributeError. *)
YieldFilter(pool) ==
    LET apy == GetNum(pool.apy, Num(0))
        tvl == GetNum(pool.tvlUsd, Num(0))
        project == GetStr(pool.project, "")
    IN  IF ~IsNumber(apy) THEN "raise"
        ELSE IF ~(apy.v >= MIN_APY) THEN "skip"
        ELSE IF ~IsNumber(tvl) THEN "raise"
        ELSE IF ~(tvl.v >= MIN_TVL) THEN "skip"
        ELSE IF project = NullStr THEN "raise"
        ELSE IF Lower(project) \notin FOCUS_PROTOCOLS THEN "skip"
        ELSE IF pool.chain = NullStr THEN "raise"
        ELSE "pass"

(* "Low" if ror > 2 else "Medium" if ror > 1 else "High", ror = apy/score *)
YieldRisk(apy, score2) ==
    IF 2 * apy > 2 * score2 THEN "Low"
    ELSE IF 2 * apy > score2 THEN "Medium"
    ELSE "High"

(* YieldEntry(...) built from a pool that passed the filter *)
MakeYieldEntry(pool) ==
    LET apy == GetNum(pool.apy, Num(0)).v
        tvl == GetNum(pool.tvlUsd, Num(0)).v
        score2 == risk_score2(apy, tvl, GetStr(pool.project, ""), GetStr(pool.chain, ""))
    IN  [chain |-> Lower(GetStr(pool.chain, "unknown")),
         project |-> GetStr(pool.project, "Unknown"),
         symbol |-> GetStr(pool.symbol, "?"),
         type |-> GetStr(pool.poolMeta, "Unknown"),
         apy |-> apy,
         ror |-> <<2 * apy, score2>>,
         tvl |-> tvl,
         risk |-> YieldRisk(apy, score2),
         contract_address |-> GetStr(pool.pool, "unknown")]

RECURSIVE YieldEntries(_)
YieldEntries(data) ==
    IF data = <<>> THEN <<>>
    ELSE IF YieldFilter(Head(data)) = "pass"
         THEN <<MakeYieldEntry(Head(data))>> \o YieldEntries(Tail(data))
         ELSE YieldEntries(Tail(data))

(* fetch_yields after async_request returned `result`:                     *)
(* [raised, entries]; an error marker gives the empty list.                *)
fetch_yields(result) ==
    IF result.error THEN [raised |-> FALSE, entries |-> <<>>]
    ELSE IF \E i \in 1..Len(result.data) : YieldFilter(result.data[i]) = "raise"
         THEN [raised |-> TRUE, entries |-> <<>>]
         ELSE [raised |-> FALSE, entries |-> YieldEntries(result.data)]

----------------------------------------------------------------------------
(* fetch_meme_coins: one raw pair of a keyword's payload *)

(* A JSON string given by its characters *)
Str(cs) == [t |-> "str", v |-> cs]

DigitChars == {"0", "1", "2", "3", "4", "5", "6", "7", "8", "9"}

DigitValue(c) ==
    CASE c = "0" -> 0 [] c = "1" -> 1 [] c = "2" -> 2 [] c = "3" -> 3 [] c = "4" -> 4
      [] c = "5" -> 5 [] c = "6" -> 6 [] c = "7" -> 7 [] c = "8" -> 8 [] c = "9" -> 9

(* str.strip() as float() applies it: the blanks at both ends go *)
RECURSIVE Strip(_)
Strip(cs) ==
    IF cs = <<>> THEN cs
    ELSE IF Head(cs) = " " THEN Strip(Tail(cs))
    ELSE IF cs[Len(cs)] = " " THEN Strip(SubSeq(cs, 1, Len(cs) - 1))
    ELSE cs

Unsigned(cs) == IF cs # <<>> /\ Head(cs) \in {"+", "-"} THEN Tail(cs) ELSE cs

(* The strings float() accepts, among those of digits, points, signs and   *)
(* decorations: an optional sign, then digits with at most one point.      *)
(* (Exponents, underscores, inf and nan are not among the model's inputs.) *)
IsFloatLiteral(cs) ==
    LET body == Unsigned(Strip(cs))
    IN  /\ \A i \in 1..Len(body) : body[i] \in DigitChars \cup {"."}
        /\ Cardinality({i \in 1..Len(body) : body[i] = "."}) <= 1
        /\ \E i \in 1..Len(body) : body[i] \in DigitChars

(* The number a string of digits denotes *)
RECURSIVE WholePart(_)
WholePart(ds) ==
    IF ds = <<>> THEN 0
    ELSE 10 * WholePart(SubSeq(ds, 1, Len(ds) - 1)) + DigitValue(ds[Len(ds)])

(* The digits before the point *)
BeforePoint(body) ==
    LET dots == {i \in 1..Len(body) : body[i] = "."}
    IN  IF dots = {} THEN body ELSE SubSeq(body, 1, (CHOOSE i \in dots : TRUE) - 1)

(* float() of an accepted string.  The accepted strings of the model have  *)
(* no digit other than 0 behind the point, so the value is a whole number. *)
LiteralValue(cs) ==
    LET stripped == Strip(cs)
        magnitude == WholePart(BeforePoint(Unsigned(stripped)))
    IN  IF Head(stripped) = "-" THEN -magnitude ELSE magnitude

(* float(x) raises TypeError for None and ValueError for a string that is  *)
(* no float literal                                                        *)
FloatOk(x) == x.t \in {"num", "numstr"} \/ (x.t = "str" /\ IsFloatLiteral(x.v))

FloatValue(x) == IF x.t = "str" THEN LiteralValue(x.v) ELSE x.v

MemeFilter(pair) ==
    LET liquidity == GetNum(pair.liquidity, Num(0))
        volume == GetNum(pair.volume, Num(0))
        change == GetNum(pair.change, Num(0))
        price == GetNum(pair.priceUsd, Num(0))
        fdv == GetNum(pair.fdv, Num(0))
    IN  IF pair.chainId = NullStr THEN "raise"
        ELSE IF Lower(GetStr(pair.chainId, "unknown")) \notin MEME_CHAINS THEN "skip"
        ELSE IF ~FloatOk(liquidity) \/ ~FloatOk(volume) \/ ~FloatOk(change) THEN "raise"
        ELSE IF FloatValue(liquidity) < MIN_LIQUIDITY \/ FloatValue(volume) < MIN_LIQUIDITY
             THEN "skip"
        ELSE IF ~FloatOk(price) \/ ~FloatOk(fdv) THEN "raise"
        ELSE "pass"

Abs(n) == IF n < 0 THEN -n ELSE n

RECURSIVE Pow10(_)
Pow10(d) == IF d = 0 THEN 1 ELSE 10 * Pow10(d - 1)

(* The digits of n, zero-padded on the left to d digits *)
RECURSIVE Digits(_, _)
Digits(n, d) == IF d = 0 THEN "" ELSE Digits(n \div 10, d - 1) \o ToString(n % 10)

(* f"{x:.<d>f}" for x = n / 10^d: sign, integer part, point, d decimals.   *)
(* The values of the model have no digit beyond the d-th, so the rounding  *)
(* of the format is not reached.                                           *)
Fixed(n, d) ==
    (IF n < 0 THEN "-" ELSE "") \o ToString(Abs(n) \div Pow10(d)) \o "." \o
    Digits(Abs(n) % Pow10(d), d)

(* f"{change_24h:.2f}%", change_24h in hundredths *)
FormatPct(h) == Fixed(h, 2) \o "%"

(* f"${p:.4f}" if p < 1 else f"${p:.2f}", p a whole number *)
FormatPrice(p) == IF p < 1 THEN "$" \o Fixed(10000 * p, 4) ELSE "$" \o Fixed(100 * p, 2)

(* "High" if abs(change_24h) > 20 else "Medium", with the bound inclusive *)
MemeRisk_Inclusive(change) == IF Abs(change) >= HIGH_CHANGE THEN "High" ELSE "Medium"

(* "High" if abs(change_24h) > 20 else "Medium" *)
MemeRisk(change) == IF Abs(change) > HIGH_CHANGE THEN "High" ELSE "Medium"

(* MemeEntry(...) built from a pair that passed; the keys are the fields   *)
(* of the dataclass, which asdict() keeps.                                 *)
MakeMemeEntry(pair) ==
    LET change == FloatValue(GetNum(pair.change, Num(0)))
    IN  [chain |-> Lower(GetStr(pair.chainId, "unknown")),
         symbol |-> GetStr(pair.symbol, "Unknown"),
         price_usd |-> FormatPrice(FloatValue(GetNum(pair.priceUsd, Num(0)))),
         change_24h_pct |-> FormatPct(100 * change),
         risk |-> MemeRisk(change),
         contract_address |-> GetStr(pair.address, "unknown"),
         project |-> GetStr(pair.dexId, "Unknown"),
         name |-> GetStr(pair.name, "Unknown"),
         market_cap |-> FloatValue(GetNum(pair.fdv, Num(0))),
         growth_potential |-> FormatPct(100 * change)]

RECURSIVE MemeEntries(_)
MemeEntries(pairs) ==
    IF pairs = <<>> THEN <<>>
    ELSE IF MemeFilter(Head(pairs)) = "pass"
         THEN <<MakeMemeEntry(Head(pairs))>> \o MemeEntries(Tail(pairs))
         ELSE MemeEntries(Tail(pairs))

(* The pairs of the results in keyword order, error results skipped *)
RECURSIVE AllPairs(_)
AllPairs(results) ==
    IF results = <<>> THEN <<>>
    ELSE (IF Head(results).error THEN <<>> ELSE Head(results).pairs)
         \o AllPairs(Tail(results))

(* fetch_meme_coins after gather returned `results` (one per keyword) *)
fetch_meme_coins(results) ==
    IF \E i \in 1..Len(AllPairs(results)) : MemeFilter(AllPairs(results)[i]) = "raise"
    THEN [raised |-> TRUE, entries |-> <<>>]
    ELSE [raised |-> FALSE, entries |-> MemeEntries(AllPairs(results))]

----------------------------------------------------------------------------
(* db.py: the two catalog tables *)

NoId == 0    \* Python None as an id

Range(seq) == {seq[i] : i \in 1..Len(seq)}

MaxOf(S) == CHOOSE x \in S : \A y \in S : y <= x

(* The id the autoincrement primary key gives the next inserted row *)
NextId(table) == IF table = {} THEN 1 ELSE MaxOf({r.id : r \in table}) + 1

(* session.merge(row): a row without id is inserted under a fresh id; a    *)
(* row with an id replaces the stored row of that id, all columns.         *)
Merge(table, row) ==
    IF row.id = NoId
    THEN table \cup {[row EXCEPT !.id = NextId(table)]}
    ELSE {r \in table : r.id # row.id} \cup {row}

(* Opportunity(...) of save_opportunities; is_active and last_updated are  *)
(* set by the call, never taken from the data.                             *)
OpportunityRow(data, t) ==
    [id |-> data.id, project |-> data.project, symbol |-> data.symbol,
     chain |-> data.chain, apy |-> data.apy, tvl |-> data.tvl,
     risk |-> data.risk, type |-> data.type,
     contract_address |-> data.contract_address,
     last_updated |-> t, is_active |-> TRUE]

(* nullable=False columns of Opportunity: a None makes the commit fail *)
OpportunityNotNull(data) ==
    /\ data.project # NullStr
    /\ data.symbol # NullStr
    /\ data.chain # NullStr
    /\ data.type # NullStr
    /\ data.contract_address # NullStr

(* get_db_session committing whatever the body did, exception or not *)
get_db_session_NoRollback(before, after, raised) == after

(* get_db_session: the body's work is committed, or rolled back when the   *)
(* body or the commit raised; the exception is raised again to the caller  *)
(* of the with block.                                                      *)
get_db_session(before, after, raised) == IF raised THEN before ELSE after

(* save_opportunities([data]): [ok, table].  Any exception (the store      *)
(* failing, a constraint) rolls the session back and returns False.        *)
save_opportunities(table, data, t, storeOk) ==
    [ok |-> storeOk /\ OpportunityNotNull(data),
     table |-> get_db_session(table, Merge(table, OpportunityRow(data, t)),
                              ~(storeOk /\ OpportunityNotNull(data)))]

(* The rows of the chain, had the query no is_active filter *)
ActiveRows_Unfiltered(table, chain) ==
    {r \in table : chain \in {"", NullStr} \/ r.chain = chain}

(* The rows get_opportunities(chain) selects before ORDER BY and LIMIT;    *)
(* `if chain:` leaves None and the empty chain unfiltered.                 *)
ActiveRows(table, chain) ==
    {r \in table : r.is_active /\ (chain \in {"", NullStr} \/ r.chain = chain)}

(* ORDER BY col ASC LIMIT limit *)
BottomBy(rows, limit, col) ==
    IF Cardinality(rows) <= limit THEN {rows}
    ELSE IF limit = 0 THEN {{}}
    ELSE LET cut == CHOOSE t \in {r[col] : r \in rows} :
                        /\ Cardinality({r \in rows : r[col] < t}) < limit
                        /\ Cardinality({r \in rows : r[col] <= t}) >= limit
             below == {r \in rows : r[col] < cut}
             ties == {r \in rows : r[col] = cut}
         IN  {below \cup T : T \in {S \in SUBSET ties :
                                      Cardinality(S) = limit - Cardinality(below)}}

(* ORDER BY col DESC LIMIT limit: the possible result sets (rows of equal  *)
(* value at the cut are returned in an order the store chooses).           *)
TopBy(rows, limit, col) ==
    IF Cardinality(rows) <= limit THEN {rows}
    ELSE IF limit = 0 THEN {{}}
    ELSE LET cut == CHOOSE t \in {r[col] : r \in rows} :
                        /\ Cardinality({r \in rows : r[col] > t}) < limit
                        /\ Cardinality({r \in rows : r[col] >= t}) >= limit
             above == {r \in rows : r[col] > cut}
             ties == {r \in rows : r[col] = cut}
         IN  {above \cup T : T \in {S \in SUBSET ties :
                                      Cardinality(S) = limit - Cardinality(above)}}

TopByTvl(rows, limit) == TopBy(rows, limit, "tvl")

(* The orders in which ORDER BY col DESC can list the rows *)
InOrder(rows, col) ==
    LET n == Cardinality(rows)
    IN  {s \in [1..n -> rows] :
            /\ \A i \in 1..n, j \in 1..n : s[i] = s[j] => i = j
            /\ \A i \in 1..(n - 1) : s[i][col] >= s[i + 1][col]}

(* get_opportunities(chain, limit): the possible results; a failing store  *)
(* is logged and answered with the empty list.                             *)
get_opportunities(table, chain, limit, storeOk) ==
    IF storeOk
    THEN {[failed |-> FALSE, rows |-> R] : R \in TopByTvl(ActiveRows(table, chain), limit)}
    ELSE {[failed |-> TRUE, rows |-> {}]}

(* get_meme_opportunities(limit): active rows by market cap; no chain *)
get_meme_opportunities(table, limit, storeOk) ==
    IF storeOk
    THEN {[failed |-> FALSE, rows |-> R] :
             R \in TopBy({r \in table : r.is_active}, limit, "market_cap")}
    ELSE {[failed |-> TRUE, rows |-> {}]}

(* The keys save_meme_opportunities reads with data[...] *)
MemeRequiredKeys ==
    {"id", "project", "name", "symbol", "chain", "price", "market_cap",
     "risk", "growth_potential", "contract_address"}

MemeOpportunityRow(data, t) ==
    [id |-> data.id, project |-> data.project, name |-> data.name,
     symbol |-> data.symbol, chain |-> data.chain, price |-> data.price,
     market_cap |-> data.market_cap, risk |-> data.risk,
     growth_potential |-> data.growth_potential,
     contract_address |-> data.contract_address,
     last_updated |-> t, is_active |-> TRUE]

RECURSIVE MergeMemes(_, _, _)
MergeMemes(table, meme_data, t) ==
    IF meme_data = <<>> THEN table
    ELSE MergeMemes(Merge(table, MemeOpportunityRow(Head(meme_data), t)),
                    Tail(meme_data), t)

(* The first record of the batch whose data[...] raises KeyError, 0 if none *)
FirstKeyError(meme_data) ==
    LET bad == {i \in 1..Len(meme_data) : ~(MemeRequiredKeys \subseteq DOMAIN meme_data[i])}
    IN  IF bad = {} THEN 0 ELSE CHOOSE i \in bad : \A j \in bad : i <= j

(* The records the loop of save_meme_opportunities has merged when it ends: *)
(* those before the first KeyError, or all of them.                        *)
MergedBeforeError(meme_data) ==
    IF FirstKeyError(meme_data) = 0 THEN meme_data
    ELSE SubSeq(meme_data, 1, FirstKeyError(meme_data) - 1)

(* The exception that ends the with block of save_meme_opportunities *)
MemeSaveError(meme_data, storeOk) ==
    IF FirstKeyError(meme_data) # 0 THEN "KeyError"
    ELSE IF ~storeOk THEN "SQLAlchemyError"
    ELSE "none"

(* What `except Exception` catches of the exceptions above *)
CaughtByExcept == {"KeyError", "SQLAlchemyError"}

(* save_meme_opportunities(meme_data): [ok, table, raised].  One session   *)
(* for the batch: a KeyError of data[...] or a store failure rolls all of  *)
(* it back, get_db_session raises it again, `except Exception` catches it  *)
(* and the function returns False.                                         *)
save_meme_opportunities(table, meme_data, t, storeOk) ==
    LET exc == MemeSaveError(meme_data, storeOk)
    IN  [ok |-> exc = "none",
         table |-> get_db_session(table,
                                  MergeMemes(table, MergedBeforeError(meme_data), t),
                                  exc # "none"),
         raised |-> IF exc \in CaughtByExcept THEN "none" ELSE exc]

----------------------------------------------------------------------------
(* What the providers can answer *)

Pool(chain, project, symbol, poolMeta, apy, tvlUsd, pool) ==
    [chain |-> chain, project |-> project, symbol |-> symbol,
     poolMeta |-> poolMeta, apy |-> apy, tvlUsd |-> tvlUsd, pool |-> pool]

PoolSamples ==
    { Pool("Ethereum", "Aave", "USDC", "Lending", Num(10), Num(2000000), "0xA"),
      Pool("Ethereum", "Aave", "USDC", "Lending", Num(25), Num(500000), "0xA"),
      Pool("Solana", "curve", "SOL", NullStr, Num(10), Num(500000), "0xB"),
      Pool("Solana", "curve", "SOL", "LP", Null, Num(500000), "0xB"),
      Pool("Ethereum", "other", AbsentStr, "LP", Num(3), Missing, AbsentStr),
      Pool("", "Aave", "USDC", "Lending", Num(10), Num(2000000), "0xA") }

Pair(chainId, address, priceUsd, liquidity, volume, change, fdv) ==
    [chainId |-> chainId, address |-> address, symbol |-> "PEPE",
     name |-> "Pepe", dexId |-> "uniswap", priceUsd |-> priceUsd,
     liquidity |-> liquidity, volume |-> volume, change |-> change, fdv |-> fdv]

PairSamples ==
    { Pair("ethereum", "0xM", NumStr(2), Num(50000), Num(20000), Num(35), Num(900000)),
      Pair("ethereum", "0xM", NumStr(3), Num(50000), Num(20000), Num(5), Num(900000)),
      Pair("solana", "0xN", NumStr(1), Null, Num(20000), Num(0), Num(100000)),
      Pair("polygon", AbsentStr, Missing, Missing, Missing, Missing, Missing) }

SeqsUpTo(S, n) == UNION {[1..k -> S] : k \in 0..n}

Payload(data, pairs) == [error |-> FALSE, data |-> data, pairs |-> pairs]

(* {"error": ...}, the error marker of async_request *)
ErrorResult == [error |-> TRUE, data |-> <<>>, pairs |-> <<>>]

Queries == 1..NumQueries
YieldReq == 0
ReqIds == {YieldReq} \cup Queries

Payloads(r) ==
    IF r = YieldReq
    THEN {Payload(d, <<>>) : d \in SeqsUpTo(PoolSamples, MaxPools)}
    ELSE {Payload(<<>>, p) : p \in SeqsUpTo(PairSamples, MaxPairs)}

(* How one attempt of a request can end *)
Outcomes == {"ok", "http_error", "conn_error", "bad_content_type", "timeout", "bad_json"}

(* The outcomes aiohttp reports as aiohttp.ClientError: raise_for_status   *)
(* (ClientResponseError), a connection error, resp.json() on a body that   *)
(* is not declared JSON (ContentTypeError).  The total timeout is          *)
(* asyncio.TimeoutError and an undecodable JSON body json.JSONDecodeError. *)
IsClientError(outcome) == outcome \in {"http_error", "conn_error", "bad_content_type"}

----------------------------------------------------------------------------
(* async_request *)

NoResult == Payload(<<>>, <<>>)

NewRequest ==
    [st |-> "pending", attempt |-> 0, waited |-> <<>>, result |-> NoResult,
     exc |-> "none"]

RECURSIVE Pow2(_)
Pow2(n) == IF n = 0 THEN 1 ELSE 2 * Pow2(n - 1)

(* One pass of the retry loop of async_request: `except` catches            *)
(* aiohttp.ClientError alone, any other exception leaves the call (exc).   *)
(* A returned or raised call has no locals left.                           *)
async_request(rq, outcome, payload) ==
    IF outcome = "ok"
    THEN [NewRequest EXCEPT !.st = "returned", !.result = payload]
    ELSE IF ~IsClientError(outcome)
    THEN [NewRequest EXCEPT !.st = "raised", !.exc = outcome]
    ELSE IF rq.attempt = retries - 1
    THEN [NewRequest EXCEPT !.st = "returned", !.result = ErrorResult]
    ELSE [rq EXCEPT !.attempt = rq.attempt + 1,
                    !.waited = Append(rq.waited, Pow2(rq.attempt))]

----------------------------------------------------------------------------
(* Initial state: main_loop entered, the first full_defi_scan started.     *)
(* The store is empty, or holds one chain with DEFAULT_LIMIT pools of      *)
(* earlier scans, all of a larger tvl than the pools of PoolSamples, or    *)
(* holds one pool that was deactivated from outside.                       *)

EarlierRow(i) ==
    [id |-> i, project |-> "Aave", symbol |-> "ETH", chain |-> "ethereum",
     apy |-> 10, tvl |-> 10000000 + i, risk |-> "Low", type |-> "Lending",
     contract_address |-> "0xE" \o ToString(i),
     last_updated |-> 0, is_active |-> TRUE]

FullChain == {EarlierRow(i) : i \in 1..DEFAULT_LIMIT}

(* A pool an earlier scan stored (the first of PoolSamples), which a       *)
(* maintenance job outside the pipeline has marked inactive since.         *)
Deactivated ==
    {[EarlierRow(1) EXCEPT !.symbol = "USDC", !.tvl = 2000000,
                           !.contract_address = "0xA", !.is_active = FALSE]}

NoFile == [state |-> "absent", yields |-> <<>>, memes |-> <<>>]

NoUpsert == [did |-> "none", readOk |-> TRUE]

(* No function has been applied yet *)
NoCall == [op |-> "none"]

Init ==
    /\ pc = "Fetching"
    /\ cycle = 1
    /\ req = [r \in ReqIds |-> NewRequest]
    /\ yfetch = "running"
    /\ mfetch = "running"
    /\ yields = <<>>
    /\ memes = <<>>
    /\ saveIdx = 1
    /\ opportunities \in {{}, FullChain, Deactivated}
    /\ meme_opportunities = {}
    /\ now = 1
    /\ snapshot = NoFile
    /\ slept = 0
    /\ storeFaults = FALSE
    /\ lastUpsert = NoUpsert
    /\ failedReq = {}
    /\ recordsLeft = MaxRecords
    /\ faultsLeft = MaxFaults
    /\ saveLog = <<>>
    /\ fn = NoCall
    /\ procs = <<>>

store == <<opportunities, meme_opportunities, now, lastUpsert, storeFaults,
           saveLog>>

(* The outcomes an attempt can have while the run may still see a failure  *)
OutcomesNow == IF faultsLeft > 0 THEN Outcomes ELSE {"ok"}

(* Whether a store call or a file write may fail now *)
MayFail == IF faultsLeft > 0 THEN {TRUE, FALSE} ELSE {TRUE}

Cost(b) == IF b THEN 0 ELSE 1

Records(payload) == Len(payload.data) + Len(payload.pairs)

----------------------------------------------------------------------------
(* full_defi_scan: the requests, fetch_yields and fetch_meme_coins *)

(* One attempt of the request r.  fetch_yields awaits its request in its   *)
(* own task, so it goes on in the step in which the request ends; the      *)
(* keyword requests are tasks of their own under asyncio.gather.           *)
Attempt(r) ==
    /\ pc = "Fetching"
    /\ req[r].st = "pending"
    /\ \E outcome \in OutcomesNow, payload \in Payloads(r) :
         LET rq == async_request(req[r], outcome, payload)
             f == fetch_yields(rq.result)
         IN  /\ outcome = "ok" => Records(payload) <= recordsLeft
             /\ outcome # "ok" => payload = NoResult
             /\ req' = [req EXCEPT ![r] = rq]
             /\ failedReq' = IF rq.st = "raised" \/ (rq.st = "returned" /\ rq.result.error)
                             THEN failedReq \cup {r} ELSE failedReq
             /\ recordsLeft' = recordsLeft - Records(rq.result)
             /\ faultsLeft' = faultsLeft - Cost(outcome = "ok")
             /\ IF r = YieldReq /\ rq.st = "raised"
                THEN yfetch' = "raised" /\ yields' = <<>>
                ELSE IF r = YieldReq /\ rq.st = "returned"
                THEN /\ yfetch' = IF f.raised THEN "raised" ELSE "done"
                     /\ yields' = f.entries
                ELSE UNCHANGED <<yfetch, yields>>
    /\ UNCHANGED <<pc, cycle, mfetch, memes, saveIdx, store, snapshot, slept, fn, procs>>

KeywordResults == [q \in Queries |-> req[q].result]

(* fetch_meme_coins resumes after asyncio.gather: gather raises as soon as *)
(* one request raised, and returns once all of them returned.              *)
FetchMemesResumes ==
    /\ pc = "Fetching"
    /\ mfetch = "running"
    /\ \/ /\ \E q \in Queries : req[q].st = "raised"
          /\ mfetch' = "raised"
          /\ memes' = <<>>
       \/ /\ \A q \in Queries : req[q].st = "returned"
          /\ LET f == fetch_meme_coins(KeywordResults)
             IN  /\ mfetch' = IF f.raised THEN "raised" ELSE "done"
                 /\ memes' = f.entries
    /\ UNCHANGED <<pc, cycle, req, yfetch, yields, saveIdx, store, snapshot,
                   slept, failedReq, recordsLeft, faultsLeft, fn, procs>>

(* What is left in memory once the process has died *)
Dead ==
    /\ pc' = "crashed"
    /\ req' = [r \in ReqIds |-> NewRequest]
    /\ yfetch' = "running"
    /\ mfetch' = "running"
    /\ yields' = <<>>
    /\ memes' = <<>>
    /\ saveIdx' = 1

(* The gather of full_defi_scan raises as soon as one fetch raised; no     *)
(* handler is around it in main_loop, and asyncio.run ends the process.    *)
ScanRaises ==
    /\ pc = "Fetching"
    /\ yfetch = "raised" \/ mfetch = "raised"
    /\ Dead
    /\ UNCHANGED <<cycle, store, snapshot, slept, failedReq, recordsLeft, faultsLeft, fn, procs>>

(* main_loop going from the persist stage straight to the sleep when the   *)
(* cycle has no memes                                                      *)
AfterYields_NoSnapshot == IF memes # <<>> THEN "SaveMemes" ELSE "Sleep"

(* if results["memes"]: save them; then the snapshot is written *)
AfterYields == IF memes # <<>> THEN "SaveMemes" ELSE "WriteSnapshot"

(* full_defi_scan returns the results to main_loop *)
ScanCompleted ==
    /\ pc = "Fetching"
    /\ yfetch = "done"
    /\ mfetch = "done"
    /\ pc' = IF yields # <<>> THEN "SaveYields" ELSE AfterYields
    /\ req' = [r \in ReqIds |-> NewRequest]
    /\ saveIdx' = 1
    /\ UNCHANGED <<cycle, yfetch, mfetch, yields, memes, store, snapshot, slept,
                   failedReq, recordsLeft, faultsLeft, fn, procs>>

----------------------------------------------------------------------------
(* main_loop after the scan: persist, write the snapshot, sleep *)

(* The dict save_results_to_db hands to save_opportunities *)
OpportunityData(entry, id) ==
    [id |-> id, project |-> entry.project, symbol |-> entry.symbol,
     chain |-> entry.chain, apy |-> entry.apy, tvl |-> entry.tvl,
     risk |-> entry.risk, type |-> entry.type,
     contract_address |-> entry.contract_address]

(* existing = [o for o in found if o["contract_address"] == ...] *)
Existing(found, entry) == {o \in found : o.contract_address = entry.contract_address}

(* The ids existing[0]["id"] can be: a match of the largest tvl, or None *)
ExistingIds(found, entry) ==
    LET existing == Existing(found, entry)
    IN  IF existing = {} THEN {NoId}
        ELSE {o.id : o \in {x \in existing : \A y \in existing : x.tvl >= y.tvl}}

(* The retry loop of save_results_to_db for yields[saveIdx].  Neither      *)
(* db.get_opportunities nor db.save_opportunities raises (each logs and    *)
(* answers [] or False), and the result of the save is not looked at: the  *)
(* first pass always reaches `break`, whatever the store did.              *)
SaveEntry ==
    /\ pc = "SaveYields"
    /\ saveIdx <= Len(yields)
    /\ \E readOk \in MayFail, writeOk \in MayFail :
         \E found \in get_opportunities(opportunities, yields[saveIdx].chain,
                                        DEFAULT_LIMIT, readOk) :
           \E id \in ExistingIds(found.rows, yields[saveIdx]) :
             LET saved == save_opportunities(opportunities,
                              OpportunityData(yields[saveIdx], id), now, writeOk)
                 did == IF ~saved.ok THEN "failed"
                        ELSE IF id = NoId THEN "inserted"
                        ELSE "updated"
             IN  /\ Cost(readOk) + Cost(writeOk) <= faultsLeft
                 /\ faultsLeft' = faultsLeft - Cost(readOk) - Cost(writeOk)
                 /\ opportunities' = saved.table
                 /\ lastUpsert' = [did |-> did, readOk |-> readOk]
                 /\ storeFaults' = (storeFaults \/ ~readOk \/ ~writeOk)
                 /\ saveLog' = Append(saveLog, did)
    /\ now' = now + 1
    /\ saveIdx' = saveIdx + 1
    /\ pc' = IF saveIdx = Len(yields) THEN AfterYields ELSE pc
    /\ UNCHANGED <<cycle, req, yfetch, mfetch, yields, memes, failedReq,
                   meme_opportunities, snapshot, slept, recordsLeft, fn, procs>>

(* db.save_meme_opportunities(results["memes"]); the return value is       *)
(* not looked at.                                                          *)
SaveMemes ==
    /\ pc = "SaveMemes"
    /\ \E writeOk \in MayFail :
         LET saved == save_meme_opportunities(meme_opportunities, memes, now, writeOk)
         IN  /\ meme_opportunities' = saved.table
             /\ storeFaults' = (storeFaults \/ ~writeOk)
             /\ faultsLeft' = faultsLeft - Cost(writeOk)
    /\ now' = now + 1
    /\ pc' = "WriteSnapshot"
    /\ UNCHANGED <<cycle, req, yfetch, mfetch, yields, memes, failedReq, saveIdx,
                   opportunities, lastUpsert, snapshot, slept, recordsLeft,
                   saveLog, fn, procs>>

(* The file had it been opened with "a": the dump lands behind the old one *)
json_dump_Appending(file, ys, ms) ==
    [state |-> "written", yields |-> file.yields \o ys, memes |-> file.memes \o ms]

(* The file after open(..., "w") and json.dump(results, f): the old        *)
(* content is gone, the two arrays of results are all it holds.            *)
json_dump(file, ys, ms) == [state |-> "written", yields |-> ys, memes |-> ms]

(* open("defi_scan_results.json", "w") and json.dump: open truncates the   *)
(* file before anything is written; an OSError of either is not handled.   *)
WriteSnapshot ==
    /\ pc = "WriteSnapshot"
    /\ \/ /\ snapshot' = json_dump(snapshot, yields, memes)
          /\ pc' = "Sleep"
          /\ UNCHANGED <<req, yfetch, mfetch, yields, memes, saveIdx, faultsLeft>>
       \/ /\ faultsLeft > 0
          /\ faultsLeft' = faultsLeft - 1
          /\ snapshot' = snapshot
          /\ Dead
       \/ /\ faultsLeft > 0
          /\ faultsLeft' = faultsLeft - 1
          /\ snapshot' = [state |-> "partial", yields |-> <<>>, memes |-> <<>>]
          /\ Dead
    /\ UNCHANGED <<cycle, store, slept, failedReq, recordsLeft, fn, procs>>

(* await asyncio.sleep(RESCAN_INTERVAL), then the next pass of while True *)
Sleep ==
    /\ pc = "Sleep"
    /\ cycle < MaxCycles
    /\ slept' = RESCAN_INTERVAL
    /\ cycle' = cycle + 1
    /\ pc' = "Fetching"
    /\ req' = [r \in ReqIds |-> NewRequest]
    /\ yfetch' = "running"
    /\ mfetch' = "running"
    /\ yields' = <<>>
    /\ memes' = <<>>
    /\ saveIdx' = 1
    /\ storeFaults' = FALSE
    /\ lastUpsert' = NoUpsert
    /\ failedReq' = {}
    /\ saveLog' = <<>>
    /\ UNCHANGED <<opportunities, meme_opportunities, now, snapshot, recordsLeft,
                   faultsLeft, fn, procs>>

Next ==
    \/ \E r \in ReqIds : Attempt(r)
    \/ FetchMemesResumes
    \/ ScanRaises
    \/ ScanCompleted
    \/ SaveEntry
    \/ SaveMemes
    \/ WriteSnapshot
    \/ Sleep

Spec == Init /\ [][Next]_vars

----------------------------------------------------------------------------
(* The functions of the pipeline applied on their own, one call each, to   *)
(* inputs the providers and the store can hold.  The scan does not run and *)
(* app.py launches nothing.                                                *)

scan == <<pc, cycle, req, yfetch, mfetch, yields, memes, saveIdx, opportunities,
          meme_opportunities, now, snapshot, slept, storeFaults, lastUpsert,
          failedReq, recordsLeft, faultsLeft, saveLog, procs>>

FnInit ==
    /\ pc = "Idle"
    /\ cycle = 1
    /\ req = [r \in ReqIds |-> NewRequest]
    /\ yfetch = "running"
    /\ mfetch = "running"
    /\ yields = <<>>
    /\ memes = <<>>
    /\ saveIdx = 1
    /\ opportunities = {}
    /\ meme_opportunities = {}
    /\ now = 1
    /\ snapshot = NoFile
    /\ slept = 0
    /\ storeFaults = FALSE
    /\ lastUpsert = NoUpsert
    /\ failedReq = {}
    /\ recordsLeft = MaxRecords
    /\ faultsLeft = MaxFaults
    /\ saveLog = <<>>
    /\ fn = NoCall
    /\ procs = <<>>

Call(op, arg, out) == [op |-> op, arg |-> arg, out |-> out]

ScoreApys == {4, 5, 10, 20, 21, 25, 40}
ScoreTvls == {99999, 100000, 500000, 999999, 1000000, 2000000}
ScoreChains == {"Ethereum", "BSC", "Solana", "Polygon", "ethereum", AbsentStr}
ScoreProjects == {"Aave", "curve", "Yearn"}

ScorePools ==
    {Pool(c, p, "USDC", "Lending", Num(a), Num(t), "0xA") :
        c \in ScoreChains, p \in ScoreProjects, a \in ScoreApys, t \in ScoreTvls}

(* fetch_yields over a payload of one pool *)
ApplyFetchYields ==
    /\ fn = NoCall
    /\ \E pool \in ScorePools :
         fn' = Call("fetch_yields", pool, fetch_yields(Payload(<<pool>>, <<>>)))
    /\ UNCHANGED scan

(* risk_score(apy, tvl, project, chain) *)
ApplyRiskScore ==
    /\ fn = NoCall
    /\ \E a \in ScoreApys, t \in ScoreTvls, p \in ScoreProjects,
          c \in ScoreChains \ {AbsentStr} :
         fn' = Call("risk_score", [apy |-> a, tvl |-> t, project |-> p, chain |-> c],
                    risk_score2(a, t, p, c))
    /\ UNCHANGED scan

ChangeSamples == {-35, -21, -20, -5, 0, 5, 19, 20, 21, 35}

ChangePairs ==
    {Pair(c, a, NumStr(p), Num(50000), Num(20000), x, Num(900000)) :
        c \in {"ethereum", "bsc", "Solana"}, a \in {"0xM", "0xN"}, p \in {0, 2},
        x \in {Num(n) : n \in ChangeSamples} \cup {NumStr(35), Missing}}

Plain == <<"1", "2", "3", "4">>
PlainZeros == <<"1", "2", "3", "4", ".", "0", "0">>
Negative == <<"-", "5">>
Blanks == <<" ", "4", "2", " ">>
Dollar == <<"$", "1", ",", "2", "3", "4", ".", "5", "6">>
Percent == <<"3", "7", ".", "5", "0", "%">>
Thousands == <<"1", ",", "2", "3", "4">>
Word == <<"n", "/", "a">>

(* What a provider can put in a numeric field *)
FieldSamples ==
    {Num(1234), NumStr(900000), Null, Missing, Num(0), Str(<<>>)} \cup
    {Str(cs) : cs \in {Plain, PlainZeros, Negative, Blanks, Dollar, Percent,
                       Thousands, Word}}

ParsePairs ==
    {Pair("ethereum", "0xM", NumStr(2), Num(50000), Num(20000), Num(5), x) :
        x \in FieldSamples} \cup
    {Pair("ethereum", "0xM", NumStr(2), Num(50000), Num(20000), x, Num(900000)) :
        x \in FieldSamples} \cup
    {Pair("ethereum", "0xM", NumStr(2), x, Num(20000), Num(5), Num(900000)) :
        x \in FieldSamples}

(* fetch_meme_coins over one keyword result of one pair *)
ApplyFetchMemes ==
    /\ fn = NoCall
    /\ \E pair \in ChangePairs \cup ParsePairs :
         fn' = Call("fetch_meme_coins", pair,
                    fetch_meme_coins(<<Payload(<<>>, <<pair>>)>>))
    /\ UNCHANGED scan

HundredthSamples == {-3500, -1234, -5, 0, 5, 50, 99, 100, 1999, 2000, 2001, 3500, 3550, 123456}

(* f"{change_24h:.2f}%" *)
ApplyFormatPct ==
    /\ fn = NoCall
    /\ \E h \in HundredthSamples : fn' = Call("format_pct", h, FormatPct(h))
    /\ UNCHANGED scan

QueryRow(i, chain, tvl, active) ==
    [EarlierRow(i) EXCEPT !.chain = chain, !.tvl = tvl, !.is_active = active]

QueryRows ==
    {QueryRow(1, "ethereum", 300, TRUE), QueryRow(2, "ethereum", 200, TRUE),
     QueryRow(3, "solana", 500, TRUE), QueryRow(4, "ethereum", 900, FALSE),
     QueryRow(5, "ethereum", 200, TRUE)}

QueryLimits == 0..3

(* db.get_opportunities(chain, limit) as the dashboard and the upsert call it *)
ApplyGetOpportunities ==
    /\ fn = NoCall
    /\ \E table \in SUBSET QueryRows, chain \in {NullStr, "ethereum", "solana", "bsc"},
          limit \in QueryLimits, storeOk \in BOOLEAN :
         \E found \in get_opportunities(table, chain, limit, storeOk) :
           \E list \in InOrder(found.rows, "tvl") :
             fn' = Call("get_opportunities",
                        [table |-> table, chain |-> chain, limit |-> limit],
                        [failed |-> found.failed, list |-> list])
    /\ UNCHANGED scan

QueryMeme(i, chain, market_cap, active) ==
    [id |-> i, project |-> "uniswap", name |-> "Pepe", symbol |-> "PEPE",
     chain |-> chain, price |-> 2, market_cap |-> market_cap, risk |-> "Medium",
     growth_potential |-> "5.00%", contract_address |-> "0xM" \o ToString(i),
     last_updated |-> 0, is_active |-> active]

QueryMemes ==
    {QueryMeme(1, "ethereum", 300, TRUE), QueryMeme(2, "bsc", 200, TRUE),
     QueryMeme(3, "solana", 500, TRUE), QueryMeme(4, "ethereum", 900, FALSE),
     QueryMeme(5, "ethereum", 200, TRUE)}

(* db.get_meme_opportunities(limit) *)
ApplyGetMemeOpportunities ==
    /\ fn = NoCall
    /\ \E table \in SUBSET QueryMemes, limit \in QueryLimits, storeOk \in BOOLEAN :
         \E found \in get_meme_opportunities(table, limit, storeOk) :
           \E list \in InOrder(found.rows, "market_cap") :
             fn' = Call("get_meme_opportunities",
                        [table |-> table, chain |-> NullStr, limit |-> limit],
                        [failed |-> found.failed, list |-> list])
    /\ UNCHANGED scan

(* A dict of all the keys save_meme_opportunities reads *)
MemeData(id, address, market_cap) ==
    [id |-> id, project |-> "uniswap", name |-> "Pepe", symbol |-> "PEPE",
     chain |-> "ethereum", price |-> 2, market_cap |-> market_cap,
     risk |-> "Medium", growth_potential |-> "5.00%", contract_address |-> address]

(* The dicts a caller can hand over: complete ones (a new record, a new    *)
(* value for the stored row 1) and the asdict(MemeEntry) of the scanner.   *)
MemeDataSamples ==
    {MemeData(NoId, "0xM9", 700), MemeData(1, "0xM1", 350)} \cup
    {MakeMemeEntry(Pair("ethereum", "0xM", NumStr(2), Num(50000), Num(20000),
                        Num(5), Num(900000)))}

MaxBatch == 2

(* db.save_meme_opportunities(meme_data) *)
ApplySaveMemes ==
    /\ fn = NoCall
    /\ \E table \in {{}, {QueryMeme(1, "ethereum", 300, TRUE)}},
          batch \in SeqsUpTo(MemeDataSamples, MaxBatch), storeOk \in BOOLEAN :
         fn' = Call("save_meme_opportunities",
                    [table |-> table, batch |-> batch, storeOk |-> storeOk],
                    save_meme_opportunities(table, batch, now, storeOk))
    /\ UNCHANGED scan

FnNext ==
    \/ ApplySaveMemes
    \/ ApplyGetOpportunities
    \/ ApplyGetMemeOpportunities
    \/ ApplyFetchYields
    \/ ApplyRiskScore
    \/ ApplyFetchMemes
    \/ ApplyFormatPct

FnSpec == FnInit /\ [][FnNext]_vars

----------------------------------------------------------------------------
(* app.py and the scanner processes it launches.  Streamlit executes the   *)
(* script app.py from its first line on every run (a new browser session,  *)
(* a widget interaction, st.rerun()), all in one server process; each      *)
(* launched scanner is a process of its own running main_loop over the     *)
(* same store.  Of a cycle the yield upsert of a batch of one entry is     *)
(* kept: the existence check and the write are two store calls.            *)

MaxRuns == 2        \* executions of the script app.py

(* The variables the scanner processes of app.py leave alone *)
appRest == <<pc, cycle, req, yfetch, mfetch, yields, memes, saveIdx,
             meme_opportunities, snapshot, slept, storeFaults, lastUpsert,
             failedReq, recordsLeft, faultsLeft, saveLog, fn>>

AppInit == FnInit

(* The process subprocess.Popen([sys.executable, "defi_scanner.py"])       *)
(* starts: main_loop at its first full_defi_scan.                          *)
NewProc == [alive |-> TRUE, at |-> "fetch", batch |-> <<>>, id |-> NoId, cycle |-> 1]

(* Popen raised: the exception is logged, no process exists *)
NotStarted == [NewProc EXCEPT !.alive = FALSE, !.at = "none"]

(* The pools the yields provider lists for the processes: one key, two apys *)
AppPools == {p \in PoolSamples : p.chain = "Ethereum" /\ YieldFilter(p) = "pass"}

(* One execution of the start-up code of app.py (lines 21-28): nothing     *)
(* looks for a scanner that is already running.                            *)
StartUp ==
    /\ Len(procs) < MaxRuns
    /\ \/ procs' = Append(procs, NewProc)
       \/ procs' = Append(procs, NotStarted)
    /\ UNCHANGED <<opportunities, now, appRest>>

(* The handlers registered with atexit run when the server process exits:  *)
(* each sends SIGTERM to its scanner if p.poll() is None.                  *)
ServerExit ==
    /\ \E i \in DOMAIN procs : procs[i].alive
    /\ procs' = [i \in DOMAIN procs |-> [procs[i] EXCEPT !.alive = FALSE]]
    /\ UNCHANGED <<opportunities, now, appRest>>

(* full_defi_scan of process i: the yields request is answered with one    *)
(* pool, or raises and ends the process (main_loop has no handler).        *)
ProcScan(i) ==
    /\ procs[i].alive
    /\ procs[i].at = "fetch"
    /\ \E outcome \in {"ok", "timeout"}, pool \in AppPools :
         LET rq == async_request(NewRequest, outcome, Payload(<<pool>>, <<>>))
         IN  procs' = [procs EXCEPT ![i] =
                          IF rq.st = "raised"
                          THEN [@ EXCEPT !.alive = FALSE]
                          ELSE [@ EXCEPT !.at = "check",
                                         !.batch = fetch_yields(rq.result).entries]]
    /\ UNCHANGED <<opportunities, now, appRest>>

(* save_results_to_db of process i, the existence check: line 197 *)
ProcCheck(i) ==
    /\ procs[i].alive
    /\ procs[i].at = "check"
    /\ \E found \in get_opportunities(opportunities, procs[i].batch[1].chain,
                                     DEFAULT_LIMIT, TRUE) :
         \E id \in ExistingIds(found.rows, procs[i].batch[1]) :
           procs' = [procs EXCEPT ![i] = [@ EXCEPT !.at = "write", !.id = id]]
    /\ UNCHANGED <<opportunities, now, appRest>>

(* save_results_to_db of process i, the write: lines 198-224; then the     *)
(* snapshot and the sleep of main_loop.                                    *)
ProcWrite(i) ==
    /\ procs[i].alive
    /\ procs[i].at = "write"
    /\ opportunities' =
          save_opportunities(opportunities,
                             OpportunityData(procs[i].batch[1], procs[i].id),
                             now, TRUE).table
    /\ now' = now + 1
    /\ procs' = [procs EXCEPT ![i] = [@ EXCEPT !.at = "sleep"]]
    /\ UNCHANGED appRest

(* asyncio.sleep(RESCAN_INTERVAL) of process i is over: the next cycle *)
ProcWake(i) ==
    /\ procs[i].alive
    /\ procs[i].at = "sleep"
    /\ procs[i].cycle < MaxCycles
    /\ procs' = [procs EXCEPT ![i] = [NewProc EXCEPT !.cycle = procs[i].cycle + 1]]
    /\ UNCHANGED <<opportunities, now, appRest>>

AppNext ==
    \/ StartUp
    \/ ServerExit
    \/ \E i \in DOMAIN procs : ProcScan(i)
    \/ \E i \in DOMAIN procs : ProcCheck(i)
    \/ \E i \in DOMAIN procs : ProcWrite(i)
    \/ \E i \in DOMAIN procs : ProcWake(i)

AppSpec == AppInit /\ [][AppNext]_vars

----------------------------------------------------------------------------
(* The claims *)

Key(r) == <<r.contract_address, r.chain>>

RowsOfKey(table, k) == {r \in table : Key(r) = k}

UniqueKeys(table) == \A a \in table, b \in table : Key(a) = Key(b) => a.id = b.id

(* C1: in both catalog tables at most one stored record exists for each    *)
(* (contract_address, chain) pair, after any number of upserts.            *)
C1_UniqueKeyInBothTables ==
    UniqueKeys(opportunities) /\ UniqueKeys(meme_opportunities)

(* C2: after a cycle that completed with a healthy store, every yield      *)
(* record and every meme record of the cycle's batch is in its table       *)
(* under its key.                                                          *)
C2_BatchIsStoredAfterHealthyCycle ==
    (pc = "Sleep" /\ ~storeFaults) =>
        /\ \A i \in 1..Len(yields) : RowsOfKey(opportunities, Key(yields[i])) # {}
        /\ \A i \in 1..Len(memes) : RowsOfKey(meme_opportunities, Key(memes[i])) # {}

(* C3: main_loop has no terminal state: whichever stage fails, the loop    *)
(* does not terminate.                                                     *)
C3_MainLoopNeverTerminates == pc # "crashed"

(* C4: async_request never raises past its caller: every outcome of an     *)
(* attempt ends in the payload or in an error value.                       *)
C4_AsyncRequestNeverRaises == \A r \in ReqIds : req[r].st # "raised"

(* C5: in a cycle in which a connector failed on all of its attempts, no   *)
(* fetch raises and the cycle goes on to the snapshot and the sleep        *)
(* instead of ending the loop.                                             *)
C5_FailedConnectorLeavesCycleAlive ==
    failedReq # {} => (yfetch # "raised" /\ mfetch # "raised" /\ pc # "crashed")

(* A pass of save_results_to_db over yields[saveIdx] that reached the      *)
(* store with both calls served.                                           *)
UpsertDone ==
    /\ pc = "SaveYields"
    /\ saveIdx' = saveIdx + 1
    /\ lastUpsert'.did \in {"inserted", "updated"}
    /\ lastUpsert'.readOk

(* C6: a second upsert of a stored key with another apy leaves one stored  *)
(* record of that key, with the second apy and a strictly greater          *)
(* last_updated.                                                           *)
C6_SecondUpsertWins ==
    [][ (/\ UpsertDone
         /\ \E old \in opportunities :
               /\ RowsOfKey(opportunities, Key(yields[saveIdx])) = {old}
               /\ old.apy # yields[saveIdx].apy)
        => \E old \in opportunities, new \in opportunities' :
               /\ RowsOfKey(opportunities, Key(yields[saveIdx])) = {old}
               /\ RowsOfKey(opportunities', Key(yields[saveIdx])) = {new}
               /\ new.apy = yields[saveIdx].apy
               /\ new.last_updated > old.last_updated ]_vars

StripTime(table) == {[r EXCEPT !.last_updated = 0] : r \in table}

(* The stored row carries exactly the fields of the entry *)
SameRecord(row, entry) == OpportunityData(entry, row.id) = [k \in DOMAIN OpportunityData(entry, row.id) |-> row[k]]

(* C7: an upsert of a record that an earlier upsert already stored leaves  *)
(* the same records with the same field values, last_updated aside.        *)
C7_UpsertIdempotent ==
    [][ (/\ UpsertDone
         /\ \E row \in opportunities : SameRecord(row, yields[saveIdx]))
        => StripTime(opportunities') = StripTime(opportunities) ]_vars

(* C8: the meme batch handed to persistence holds no two records of one    *)
(* (chain, contract_address): duplicates of the fan-out are collapsed.     *)
C8_MemeBatchDeduplicated ==
    pc = "SaveMemes" =>
        \A i \in 1..Len(memes), j \in 1..Len(memes) :
            Key(memes[i]) = Key(memes[j]) => i = j

(* The entries a payload's well-formed records that pass the filters give *)
GoodMemeEntries(result) ==
    {MakeMemeEntry(result.pairs[i]) :
        i \in {j \in 1..Len(result.pairs) : MemeFilter(result.pairs[j]) = "pass"}}

GoodYieldEntries(result) ==
    {MakeYieldEntry(result.data[i]) :
        i \in {j \in 1..Len(result.data) : YieldFilter(result.data[j]) = "pass"}}

(* C9: once fetch_meme_coins has ended, every record a succeeded keyword   *)
(* returned that passes the filters is in its batch, whatever happened to  *)
(* the other keywords.                                                     *)
C9_KeywordFailureIsContained ==
    (pc = "Fetching" /\ mfetch # "running") =>
        \A q \in Queries :
            (req[q].st = "returned" /\ ~req[q].result.error) =>
                GoodMemeEntries(req[q].result) \subseteq Range(memes)

(* C10: a fetch whose requests all returned does return, and its batch     *)
(* holds every well-formed record of the payload that passes the filters,  *)
(* also when another record of the payload is malformed.                   *)
C10_MalformedRecordIsSkipped ==
    /\ (pc = "Fetching" /\ req[YieldReq].st = "returned" /\ ~req[YieldReq].result.error) =>
          /\ yfetch = "done"
          /\ GoodYieldEntries(req[YieldReq].result) \subseteq Range(yields)
    /\ (pc = "Fetching" /\ mfetch # "running" /\ \A q \in Queries : req[q].st = "returned") =>
          /\ mfetch = "done"
          /\ \A q \in Queries : GoodMemeEntries(req[q].result) \subseteq Range(memes)

(* C11: once the persist stage of a cycle is over, every yield record of   *)
(* the batch whose own write went through is stored, whatever happened to  *)
(* the other records; and with the store healthy every meme record of the  *)
(* batch other than the one whose write failed is stored.                  *)
C11_FailedWriteSkipsOneRecord ==
    pc \in {"WriteSnapshot", "Sleep"} =>
        /\ \A i \in 1..Len(saveLog) :
              saveLog[i] \in {"inserted", "updated"} =>
                  RowsOfKey(opportunities, Key(yields[i])) # {}
        /\ ~storeFaults =>
              \A j \in 1..Len(memes) :
                  j # FirstKeyError(memes) =>
                      RowsOfKey(meme_opportunities, Key(memes[j])) # {}

(* The risk score the risk function is to give, doubled: base 1, +1 for an *)
(* apy above 20, +1 for a tvl below 1,000,000, the chain's weight, +0.5    *)
(* for a project outside the focus list.                                   *)
ClaimScore2(apy, tvl, weight2, inFocus) ==
    2 + (IF apy > 20 THEN 2 ELSE 0) + (IF tvl < 1000000 THEN 2 ELSE 0)
      + weight2 + (IF inFocus THEN 0 ELSE 1)

(* Low if return-on-risk > 2, Medium if > 1, else High; ror = n / d *)
ClaimClass(n, d) == IF n > 2 * d THEN "Low" ELSE IF n > d THEN "Medium" ELSE "High"

(* C12: risk_score is 1.0 + (1 if apy > 20) + (1 if tvl < 1,000,000) + the *)
(* chain weight + (0.5 if the project is outside the focus list); every    *)
(* yield record carries ror = apy / risk_score and the class Low for       *)
(* ror > 2, Medium for ror > 1, else High; apy 25, tvl 500,000 and chain   *)
(* weight 1.0 give score 4.0, ror 6.25 (50/8 doubled) and Low.             *)
C12_YieldRiskScore ==
    /\ fn.op = "risk_score" =>
          fn.out = ClaimScore2(fn.arg.apy, fn.arg.tvl, ChainRisk2(fn.arg.chain),
                               Lower(fn.arg.project) \in FOCUS_PROTOCOLS)
    /\ (fn.op = "fetch_yields" /\ fn.out.entries # <<>>) =>
          LET e == fn.out.entries[1]
              score2 == ClaimScore2(fn.arg.apy.v, fn.arg.tvlUsd.v,
                                    ChainRisk2(GetStr(fn.arg.chain, "")),
                                    Lower(fn.arg.project) \in FOCUS_PROTOCOLS)
          IN  /\ e.ror = <<2 * e.apy, score2>>
              /\ e.risk = ClaimClass(e.ror[1], e.ror[2])
              /\ (e.apy = 25 /\ e.tvl = 500000 /\ ChainRisk2(GetStr(fn.arg.chain, "")) = 2) =>
                    (e.ror = <<50, 8>> /\ e.risk = "Low")

C12_Witness ==
    /\ fn.op = "fetch_yields"
    /\ fn.out.entries # <<>>
    /\ fn.arg.chain = "BSC"
    /\ fn.out.entries[1].ror = <<50, 8>>
    /\ fn.out.entries[1].risk = "Low"

(* What a percent value given in hundredths reads as with two decimals *)
Rendered ==
    [h \in HundredthSamples \cup {100 * n : n \in ChangeSamples} |->
        CASE h = -3500 -> "-35.00%" [] h = -2100 -> "-21.00%" [] h = -2000 -> "-20.00%"
          [] h = -1234 -> "-12.34%" [] h = -500 -> "-5.00%" [] h = -5 -> "-0.05%"
          [] h = 0 -> "0.00%" [] h = 5 -> "0.05%" [] h = 50 -> "0.50%"
          [] h = 99 -> "0.99%" [] h = 100 -> "1.00%" [] h = 500 -> "5.00%"
          [] h = 1900 -> "19.00%" [] h = 1999 -> "19.99%" [] h = 2000 -> "20.00%"
          [] h = 2001 -> "20.01%" [] h = 2100 -> "21.00%" [] h = 3500 -> "35.00%"
          [] h = 3550 -> "35.50%" [] h = 123456 -> "1234.56%"]

(* C13: a meme record is High when the absolute 24h change is above 20 and *)
(* Medium otherwise (20 itself is Medium, Low never occurs), and its       *)
(* growth_potential is the change with two decimals and a percent sign: a  *)
(* change of +35 gives High and "35.00%".                                  *)
C13_MemeRiskAndGrowth ==
    /\ fn.op = "format_pct" => fn.out = Rendered[fn.arg]
    /\ (fn.op = "fetch_meme_coins" /\ fn.arg \in ChangePairs /\ fn.out.entries # <<>>) =>
          LET e == fn.out.entries[1]
              change == GetNum(fn.arg.change, Num(0)).v
          IN  /\ e.risk = (IF change > 20 \/ change < -20 THEN "High" ELSE "Medium")
              /\ e.growth_potential = Rendered[100 * change]
              /\ change = 35 => (e.risk = "High" /\ e.growth_potential = "35.00%")

C13_Witness ==
    /\ fn.op = "fetch_meme_coins"
    /\ fn.out.entries # <<>>
    /\ fn.arg.change = Num(35)
    /\ fn.out.entries[1].risk = "High"
    /\ fn.out.entries[1].growth_potential = "35.00%"

(* The value a numeric field denotes, in hundredths: a number is itself, a *)
(* decorated string is its number without currency sign, separators and    *)
(* percent sign, anything else is 0.                                       *)
DenotedH(x) ==
    CASE x.t \in {"num", "numstr"} -> 100 * x.v
      [] x.t \in {"null", "missing"} -> 0
      [] x = Str(Plain) -> 123400
      [] x = Str(PlainZeros) -> 123400
      [] x = Str(Negative) -> -500
      [] x = Str(Blanks) -> 4200
      [] x = Str(Dollar) -> 123456
      [] x = Str(Percent) -> 3750
      [] x = Str(Thousands) -> 123400
      [] OTHER -> 0

(* C14: parsing a numeric field of a pair never raises; a plain number or  *)
(* a decorated string gives the value it denotes, any other input 0.0      *)
(* (seen in the market cap of the record the pair gives).                  *)
C14_ParseDecoratedNumbers ==
    (fn.op = "fetch_meme_coins" /\ fn.arg \in ParsePairs) =>
        /\ ~fn.out.raised
        /\ fn.out.entries # <<>> =>
              100 * fn.out.entries[1].market_cap = DenotedH(fn.arg.fdv)

(* C15: once the snapshot stage of a cycle is over, the snapshot file      *)
(* holds that cycle's batch under "yields" and "memes" and nothing else,   *)
(* also when both are empty and whatever an earlier cycle wrote.           *)
C15_SnapshotIsThisCyclesBatch ==
    pc = "Sleep" =>
        snapshot = [state |-> "written", yields |-> yields, memes |-> memes]

(* The second cycle fetched nothing after the first one stored a record:   *)
(* the file of the first cycle was not empty, the one written now is.      *)
C15_Witness ==
    /\ pc = "Sleep"
    /\ cycle = 2
    /\ yields = <<>>
    /\ memes = <<>>
    /\ \E r \in opportunities : r.last_updated > 0
    /\ snapshot.yields = <<>>

(* A served query whose result is at most `limit` rows of the candidates,  *)
(* listed by col descending, none of them smaller than a candidate left    *)
(* out, and all candidates when they are fewer than limit.                 *)
LargestOf(candidates, col) ==
    LET list == fn.out.list
        rows == Range(list)
    IN  /\ Len(list) <= fn.arg.limit
        /\ rows \subseteq candidates
        /\ \A i \in 1..(Len(list) - 1) : list[i][col] >= list[i + 1][col]
        /\ \A r \in rows, o \in candidates \ rows : o[col] <= r[col]
        /\ Len(list) < fn.arg.limit => rows = candidates

OfChain(table, chain) == {r \in table : chain = NullStr \/ r.chain = chain}

IsQuery == fn.op \in {"get_opportunities", "get_meme_opportunities"} /\ ~fn.out.failed

QueryCol == IF fn.op = "get_opportunities" THEN "tvl" ELSE "market_cap"

KeepsActiveFlags(before, after) ==
    \/ after = before
    \/ \A r2 \in after \ before :
          IF \E r \in before : r.id = r2.id
          THEN \A r \in before : r.id = r2.id => r2.is_active = r.is_active
          ELSE r2.is_active

(* C17: a record is stored with is_active = true when first inserted, and  *)
(* no step of the scan pipeline changes the is_active of a stored record.  *)
C17_IsActiveNeverFlipped ==
    [][ /\ KeepsActiveFlags(opportunities, opportunities')
        /\ KeepsActiveFlags(meme_opportunities, meme_opportunities') ]_vars

(* The pipeline has upserted the key of a record that is stored inactive *)
C17_Witness ==
    \E a \in opportunities, b \in opportunities :
        /\ Key(a) = Key(b)
        /\ ~a.is_active
        /\ b.is_active
        /\ b.last_updated > 0

Keys(table) == {Key(r) : r \in table}

(* C18: the scan pipeline never deletes a stored record: over any steps    *)
(* the (contract_address, chain) keys present in each table only grow.     *)
C18_KeysOnlyGrow ==
    [][ /\ (opportunities' = opportunities \/ Keys(opportunities) \subseteq Keys(opportunities'))
        /\ (meme_opportunities' = meme_opportunities
              \/ Keys(meme_opportunities) \subseteq Keys(meme_opportunities')) ]_vars

(* The waits of the retry policy: 1 s after the first failed attempt, 2 s  *)
(* after the second.                                                       *)
Backoff == <<1, 2>>

(* What one attempt of a pending request may lead to under the policy *)
PolicyStep(before, after) ==
    \/ /\ after.st = "returned"
       /\ ~after.result.error
    \/ /\ before.attempt < retries - 1
       /\ after.st = "pending"
       /\ after.attempt = before.attempt + 1
       /\ after.waited = SubSeq(Backoff, 1, after.attempt)
    \/ /\ before.attempt = retries - 1
       /\ after.st = "returned"
       /\ after.result = ErrorResult

(* C19: for one request async_request makes at most 3 attempts; a          *)
(* successful attempt returns at once; after a failed attempt that is not  *)
(* the last it waits 1 s, then 2 s, and retries; after the third failed    *)
(* attempt it returns the error result.                                    *)
C19_RetryPolicy ==
    [][ \A r \in ReqIds :
          (req[r].st = "pending" /\ req'[r] # req[r] /\ pc' = "Fetching")
             => PolicyStep(req[r], req'[r]) ]_vars

(* C20: an attempt that exceeds its timeout counts as a failed attempt: it *)
(* is retried or, on the last attempt, answered with the error result; it  *)
(* never leaves async_request as an exception.                             *)
C20_TimeoutIsAFailedAttempt ==
    \A r \in ReqIds : ~(req[r].st = "raised" /\ req[r].exc = "timeout")

(* C21: every record of a batch satisfies the configured filters: a yield  *)
(* record has apy >= MIN_APY, tvl >= MIN_TVL, a chain of the allowed chain *)
(* set and a project of the focus set, a meme record a chain of the        *)
(* allowed chain set; a well-formed record that fails a filter is left out *)
(* without an error.                                                       *)
C21_BatchSatisfiesFilters ==
    /\ fn.op = "fetch_yields" =>
          /\ ~fn.out.raised
          /\ \A e \in Range(fn.out.entries) :
                /\ e.apy >= MIN_APY
                /\ e.tvl >= MIN_TVL
                /\ e.chain \in MEME_CHAINS
                /\ Lower(e.project) \in FOCUS_PROTOCOLS
    /\ fn.op = "fetch_meme_coins" =>
          /\ fn.arg \in ChangePairs => ~fn.out.raised
          /\ \A e \in Range(fn.out.entries) : e.chain \in MEME_CHAINS

(* The defaults fetch_yields and fetch_meme_coins put in an identity field *)
(* the provider left out                                                   *)
Placeholders == {"unknown", "Unknown", "?", ""}

(* C22: no record of a batch has an identity field (chain, symbol,         *)
(* contract address) filled by a placeholder; a provider record that lacks *)
(* one is excluded.                                                        *)
C22_NoPlaceholderIdentity ==
    fn.op \in {"fetch_yields", "fetch_meme_coins"} =>
        \A e \in Range(fn.out.entries) :
            /\ e.chain \notin Placeholders
            /\ e.symbol \notin Placeholders
            /\ e.contract_address \notin Placeholders

(* C23: every numeric field of a record of a batch is non-negative, and a  *)
(* provider record without a required economic field (apy or tvl of a      *)
(* pool, price or market cap of a pair) gives no record.                   *)
C23_NumbersNonNegativeAndPresent ==
    /\ fn.op = "fetch_yields" =>
          \A e \in Range(fn.out.entries) :
              /\ e.apy >= 0 /\ e.tvl >= 0
              /\ fn.arg.apy.t # "missing" /\ fn.arg.tvlUsd.t # "missing"
    /\ fn.op = "fetch_meme_coins" =>
          \A e \in Range(fn.out.entries) :
              /\ e.market_cap >= 0
              /\ fn.arg.priceUsd.t # "missing" /\ fn.arg.fdv.t # "missing"

(* The stages main_loop may go to from a stage: a stage with nothing to do *)
(* is passed over, and "crashed" is the end of the process.                *)
StagesAfter(stage) ==
    CASE stage = "Fetching" -> {"SaveYields", "SaveMemes", "WriteSnapshot", "crashed"}
      [] stage = "SaveYields" -> {"SaveMemes", "WriteSnapshot"}
      [] stage = "SaveMemes" -> {"WriteSnapshot"}
      [] stage = "WriteSnapshot" -> {"Sleep", "crashed"}
      [] stage = "Sleep" -> {"Fetching"}
      [] OTHER -> {}

(* C24: within one scheduler the stages of a cycle come in the order       *)
(* fetch, persist, write snapshot, sleep, and cycles never overlap: no     *)
(* request is in flight outside the fetch stage, and the fetch of the next *)
(* cycle starts only from the sleep of this one, slept in full, with the   *)
(* snapshot of this cycle written.                                         *)
C24_StagesInOrder ==
    [][ /\ pc' # pc => pc' \in StagesAfter(pc)
        /\ pc' # "Fetching" => \A r \in ReqIds : req'[r] = NewRequest
        /\ cycle' # cycle =>
              /\ pc = "Sleep" /\ pc' = "Fetching"
              /\ cycle' = cycle + 1
              /\ slept' = RESCAN_INTERVAL
              /\ snapshot = json_dump(snapshot, yields, memes) ]_vars

(* The second cycle has persisted its yields, written its snapshot and     *)
(* reached its sleep.                                                      *)
C24_Witness ==
    /\ cycle = 2
    /\ pc = "Sleep"
    /\ slept = RESCAN_INTERVAL
    /\ yields # <<>>
    /\ snapshot.yields = yields

(* C26: the yield save path retries: an entry whose store lookup or write  *)
(* failed is attempted again (up to 3 attempts); so save_results_to_db     *)
(* goes on from an entry after a first attempt only when that attempt's    *)
(* lookup was served and its write stored the entry.                       *)
C26_FailedSaveIsRetried ==
    [][ (pc = "SaveYields" /\ saveIdx' # saveIdx) =>
           /\ lastUpsert'.readOk
           /\ lastUpsert'.did \in {"inserted", "updated"} ]_vars

(* C27: with every store call of the run served, an upsert for a key that  *)
(* is stored (and active) updates that record and adds no row, however     *)
(* many records the chain holds.                                           *)
C27_UpsertSeesEveryRecord ==
    [][ ( /\ pc = "SaveYields"
          /\ saveIdx' # saveIdx
          /\ faultsLeft' = MaxFaults
          /\ lastUpsert'.did \in {"inserted", "updated"}
          /\ \E r \in RowsOfKey(opportunities, Key(yields[saveIdx])) : r.is_active )
        => /\ lastUpsert'.did = "updated"
           /\ Cardinality(opportunities') = Cardinality(opportunities) ]_vars

(* C28: a key of which a record is stored inactive has at most one stored  *)
(* record, whatever the scans after the deactivation observed (with every  *)
(* request, store call and file write of the run served).                  *)
C28_OneRecordAfterDeactivation ==
    \A r \in opportunities :
        (~r.is_active /\ faultsLeft = MaxFaults) => Cardinality(RowsOfKey(opportunities, Key(r))) <= 1

(* C30: save_meme_opportunities is all-or-nothing for a batch: it returns  *)
(* False exactly when a record of the batch (or the store) failed, the     *)
(* table is then exactly as before the call, a call that returns True has  *)
(* merged the whole batch, and no call raises.                             *)
C30_MemeSaveAllOrNothing ==
    fn.op = "save_meme_opportunities" =>
        /\ fn.out.raised = "none"
        /\ fn.out.ok <=> (fn.arg.storeOk /\ FirstKeyError(fn.arg.batch) = 0)
        /\ ~fn.out.ok => fn.out.table = fn.arg.table
        /\ fn.out.ok => fn.out.table = MergeMemes(fn.arg.table, fn.arg.batch, now)

(* A batch whose first record is complete and whose second lacks a key,    *)
(* saved with the store up into a table that holds a row: False, and the   *)
(* table as before.                                                        *)
C30_Witness ==
    /\ fn.op = "save_meme_opportunities"
    /\ fn.arg.storeOk
    /\ fn.arg.table # {}
    /\ Len(fn.arg.batch) = 2
    /\ FirstKeyError(fn.arg.batch) = 2
    /\ ~fn.out.ok
    /\ fn.out.table = fn.arg.table

(* The scanner processes that are running *)
Running == {i \in DOMAIN procs : procs[i].alive}

(* C25: at any time at most one scanner process (one main_loop) is running *)
(* and writing to the store, however often the start-up code of app.py is  *)
(* executed.                                                               *)
C25_SingleScanner == Cardinality(Running) <= 1

(* Two processes have both finished the upsert of their first cycle, for   *)
(* the same key.                                                           *)
BothUpserted(i, j) ==
    /\ i # j
    /\ procs[i].at = "sleep" /\ procs[i].cycle = 1
    /\ procs[j].at = "sleep" /\ procs[j].cycle = 1
    /\ Key(procs[i].batch[1]) = Key(procs[j].batch[1])

(* C29: when two scanner processes run the yield upsert for the same       *)
(* previously unseen key, their checks and writes interleaved in any       *)
(* order, the store ends with exactly one record for that key.             *)
C29_ConcurrentUpsertOneRecord ==
    \A i \in DOMAIN procs, j \in DOMAIN procs :
        BothUpserted(i, j) =>
            Cardinality(RowsOfKey(opportunities, Key(procs[i].batch[1]))) = 1

====
